---- MODULE Spec2Model ----
(***************************************************************************)
(* A model of the Netpbm codec and raster core (src/pbm.go, src/pgm.go,    *)
(* src/ppm.go).  A file is a sequence of bytes (naturals 0..255); an image *)
(* is a record with the fields of the Go structs PBM, PGM and PPM.  Pixel  *)
(* grids are functions over 0-based indices, data[y][x], as in the source. *)
(***************************************************************************)
EXTENDS Integers, Sequences, FiniteSets, TLC

VARIABLES
    img,    \* the image object the caller holds (a PBM, PGM or PPM struct)
    input,  \* what the run started from: the image as it was constructed, the
            \* description of the file handed to the decoder, or the canvas
            \* and the call drawn on it (never changed)
    file,   \* the content of the file the caller saves to and reads from
    res,    \* what the last call returned: its error, panic, returned image
    hist    \* the Invert, SetMaxValue, Flip, Flop and Rotate90CW calls made on
            \* img so far, oldest first

vars == <<img, input, file, res, hist>>

---------------------------------------------------------------------------
(* Bounds of the model. *)

\* images built by the input generator have width and height in 1..MaxDim
MaxDim == 3
\* the input generator varies the pixel pattern with a seed in 0..MaxSeed
MaxSeed == 1
\* the number of transforming calls made on one image is at most MaxOps
MaxOps == 4
\* the width of the one image too large for a single buffer of the reader
LargeWidth == 64
\* a file handed to the decoder states a width and a height in -1..MaxHeader
MaxHeader == 2
\* and holds at most MaxLines rows of pixel data
MaxLines == 2
\* a polygon handed to DrawPolygon has at most MaxPoints vertices
MaxPoints == 3

---------------------------------------------------------------------------
(* Bytes and text. *)

Min(a, b) == IF a < b THEN a ELSE b

Max(a, b) == IF a > b THEN a ELSE b

NL == 10

SP == 32

\* fmt's %d of a non-negative integer: its decimal digits
RECURSIVE Digits(_)
Digits(n) == IF n < 10 THEN <<48 + n>> ELSE Append(Digits(n \div 10), 48 + (n % 10))

\* fmt's %d verb (also Fprint / Fprintln of an integer)
FormatInt(n) == IF n < 0 THEN <<45>> \o Digits(0 - n) ELSE Digits(n)

\* the magic numbers a caller may store with SetMagicNumber; "P7" stands for
\* any string that is none of the six tokens
MagicTokens == {"P1", "P2", "P3", "P4", "P5", "P6", "P7"}

\* fmt's %s of a magic number: the letter P and a digit
MagicBytes(m) ==
    CASE m = "P1" -> <<80, 49>>
      [] m = "P2" -> <<80, 50>>
      [] m = "P3" -> <<80, 51>>
      [] m = "P4" -> <<80, 52>>
      [] m = "P5" -> <<80, 53>>
      [] m = "P6" -> <<80, 54>>
      [] OTHER    -> <<80, 55>>

RECURSIVE Flatten(_)
Flatten(ss) == IF ss = <<>> THEN <<>> ELSE Head(ss) \o Flatten(Tail(ss))

\* no image: what a failed Read returns (a nil pointer)
NoImage == [kind |-> "nil"]

---------------------------------------------------------------------------
(* PBM.Save, PGM.Save, PPM.Save: the bytes written and the error returned. *)

\* one row of saveP1: "0"/"1" tokens, a space between them, a newline
saveP1Row(pbm, y) ==
    Flatten([i \in 1..pbm.width |->
                <<IF pbm.data[y][i - 1] THEN 49 ELSE 48>>
                \o (IF i - 1 < pbm.width - 1 THEN <<SP>> ELSE <<>>)])
    \o <<NL>>

saveP1(pbm) == Flatten([j \in 1..pbm.height |-> saveP1Row(pbm, j - 1)])

\* one byte of a saveP4 row: bit 7 - (x % 8) of byte x / 8 is pixel x
saveP4Byte(pbm, y, byteIndex) ==
    LET bit(k) == IF 8 * byteIndex + k < pbm.width /\ pbm.data[y][8 * byteIndex + k]
                  THEN 2 ^ (7 - k) ELSE 0
    IN bit(0) + bit(1) + bit(2) + bit(3) + bit(4) + bit(5) + bit(6) + bit(7)

saveP4Row(pbm, y) ==
    [b \in 1..((pbm.width + 7) \div 8) |-> saveP4Byte(pbm, y, b - 1)]

saveP4(pbm) == Flatten([j \in 1..pbm.height |-> saveP4Row(pbm, j - 1)])

PBMSave(pbm) ==
    LET header == MagicBytes(pbm.magicNumber) \o <<NL>> \o FormatInt(pbm.width)
                  \o <<SP>> \o FormatInt(pbm.height) \o <<NL>>
    IN  IF pbm.magicNumber = "P1"
        THEN [file |-> header \o saveP1(pbm), err |-> "nil"]
        ELSE IF pbm.magicNumber = "P4"
        THEN [file |-> header \o saveP4(pbm), err |-> "nil"]
        ELSE [file |-> header, err |-> "unsupported magic number"]

saveP2PGMRow(pgm, y) ==
    Flatten([i \in 1..pgm.width |->
                FormatInt(pgm.data[y][i - 1])
                \o (IF i - 1 < pgm.width - 1 THEN <<SP>> ELSE <<>>)])
    \o <<NL>>

saveP2PGM(pgm) == Flatten([j \in 1..pgm.height |-> saveP2PGMRow(pgm, j - 1)])

saveP5PGMRow(pgm, y) == [i \in 1..pgm.width |-> pgm.data[y][i - 1]]

saveP5PGM(pgm) == Flatten([j \in 1..pgm.height |-> saveP5PGMRow(pgm, j - 1)])

PGMSave(pgm) ==
    LET header == MagicBytes(pgm.magicNumber) \o <<NL>> \o FormatInt(pgm.width)
                  \o <<SP>> \o FormatInt(pgm.height) \o <<NL>>
                  \o FormatInt(pgm.max) \o <<NL>>
    IN  IF \E y \in DOMAIN pgm.data : Cardinality(DOMAIN pgm.data[y]) # pgm.width
        THEN [file |-> <<>>, err |-> "inconsistent row length in data"]
        ELSE IF pgm.magicNumber = "P2"
        THEN [file |-> header \o saveP2PGM(pgm), err |-> "nil"]
        ELSE IF pgm.magicNumber = "P5"
        THEN [file |-> header \o saveP5PGM(pgm), err |-> "nil"]
        ELSE [file |-> header, err |-> "nil"]

PPMSaveRow(ppm, y) ==
    Flatten([i \in 1..ppm.width |->
                LET pixel == ppm.data[y][i - 1]
                IN  IF ppm.magicNumber = "P6"
                    THEN <<pixel.R, pixel.G, pixel.B>>
                    ELSE FormatInt(pixel.R) \o <<SP>> \o FormatInt(pixel.G) \o <<SP>>
                         \o FormatInt(pixel.B) \o <<SP>>])
    \o (IF ppm.magicNumber = "P3" THEN <<NL>> ELSE <<>>)

PPMSave(ppm) ==
    IF ppm.magicNumber = "P6" \/ ppm.magicNumber = "P3"
    THEN [file |-> MagicBytes(ppm.magicNumber) \o <<NL>> \o FormatInt(ppm.width)
                   \o <<SP>> \o FormatInt(ppm.height) \o <<NL>>
                   \o FormatInt(ppm.max) \o <<NL>>
                   \o Flatten([j \in 1..ppm.height |-> PPMSaveRow(ppm, j - 1)]),
          err |-> "nil"]
    ELSE [file |-> <<>>, err |-> "magic number error"]

---------------------------------------------------------------------------
(* bufio.Reader over the opened file, as ReadPBM / ReadPGM / ReadPPM use   *)
(* it.  A reader is [pos, lim, eof]: the file's bytes pos+1..lim are       *)
(* buffered and unread, the file itself has been read up to lim, and eof   *)
(* records that a read of the file returned no bytes.                      *)

\* the buffer size bufio.NewReader gives its reader
defaultBufSize == 4096

NewReader == [pos |-> 0, lim |-> 0, eof |-> FALSE]

\* bufio's fill: slide the unread bytes to the front of the buffer and read
\* the file once into the free space behind them
fill(f, rd) ==
    LET n == Min(defaultBufSize - (rd.lim - rd.pos), Len(f) - rd.lim)
    IN  [pos |-> rd.pos, lim |-> rd.lim + n, eof |-> n = 0]

\* reader.ReadString('\n'): the bytes up to and including the next newline;
\* at the end of the file, what is left and the error io.EOF
RECURSIVE ReadString(_, _, _)
ReadString(f, rd, acc) ==
    LET hits == {i \in (rd.pos + 1)..rd.lim : f[i] = NL}
    IN  IF hits # {}
        THEN LET i == CHOOSE h \in hits : \A k \in hits : h <= k
             IN  [line |-> acc \o SubSeq(f, rd.pos + 1, i), err |-> "nil",
                  rd |-> [rd EXCEPT !.pos = i]]
        ELSE IF rd.eof
        THEN [line |-> acc \o SubSeq(f, rd.pos + 1, rd.lim), err |-> "EOF",
              rd |-> [rd EXCEPT !.pos = rd.lim]]
        ELSE IF rd.lim - rd.pos >= defaultBufSize
        THEN ReadString(f, [rd EXCEPT !.pos = rd.lim],
                        acc \o SubSeq(f, rd.pos + 1, rd.lim))
        ELSE ReadString(f, fill(f, rd), acc)

\* reader.Read(p) with len(p) = n: at most one read of the file, so it may
\* return fewer than n bytes although the file holds more
Read(f, rd, n) ==
    IF n = 0 THEN [bytes |-> <<>>, err |-> "nil", rd |-> rd]
    ELSE IF rd.pos = rd.lim /\ rd.eof
    THEN [bytes |-> <<>>, err |-> "EOF", rd |-> rd]
    ELSE IF rd.pos = rd.lim /\ n >= defaultBufSize
    THEN LET m == Min(n, Len(f) - rd.lim)
         IN  [bytes |-> SubSeq(f, rd.lim + 1, rd.lim + m),
              err |-> IF m = 0 THEN "EOF" ELSE "nil",
              rd |-> [pos |-> rd.lim + m, lim |-> rd.lim + m, eof |-> m = 0]]
    ELSE LET b == IF rd.pos = rd.lim THEN fill(f, rd) ELSE rd
             k == Min(n, b.lim - b.pos)
         IN  [bytes |-> SubSeq(f, b.pos + 1, b.pos + k),
              err |-> IF b.lim = b.pos THEN "EOF" ELSE "nil",
              rd |-> [b EXCEPT !.pos = b.pos + k]]

---------------------------------------------------------------------------
(* strings.TrimSpace, strings.Fields and fmt.Sscanf's %d. *)

IsSpace(b) == b \in {9, 10, 11, 12, 13, 32}

IsDigit(b) == b >= 48 /\ b <= 57

RECURSIVE TrimLeft(_)
TrimLeft(s) == IF s # <<>> /\ IsSpace(Head(s)) THEN TrimLeft(Tail(s)) ELSE s

RECURSIVE TrimRight(_)
TrimRight(s) ==
    IF s # <<>> /\ IsSpace(s[Len(s)]) THEN TrimRight(SubSeq(s, 1, Len(s) - 1)) ELSE s

TrimSpace(s) == TrimRight(TrimLeft(s))

\* strings.Fields: the maximal runs of non-space bytes, in order
RECURSIVE Fields(_)
Fields(s) ==
    LET t == TrimLeft(s)
    IN  IF t = <<>> THEN <<>>
        ELSE LET stops == {i \in 1..Len(t) : IsSpace(t[i])}
                 n == IF stops = {} THEN Len(t)
                      ELSE (CHOOSE i \in stops : \A k \in stops : i <= k) - 1
             IN  <<SubSeq(t, 1, n)>> \o Fields(SubSeq(t, n + 1, Len(t)))

RECURSIVE DigitsVal(_)
DigitsVal(s) ==
    IF s = <<>> THEN 0 ELSE 10 * DigitsVal(SubSeq(s, 1, Len(s) - 1)) + (s[Len(s)] - 48)

AllDigits(s) == s # <<>> /\ \A i \in 1..Len(s) : IsDigit(s[i])

\* %d into an int: an optional sign and decimal digits
ScanInt(tok) ==
    IF tok # <<>> /\ Head(tok) \in {43, 45}
    THEN [ok |-> AllDigits(Tail(tok)),
          val |-> IF AllDigits(Tail(tok))
                  THEN (IF Head(tok) = 45 THEN 0 - DigitsVal(Tail(tok))
                        ELSE DigitsVal(Tail(tok)))
                  ELSE 0]
    ELSE [ok |-> AllDigits(tok), val |-> IF AllDigits(tok) THEN DigitsVal(tok) ELSE 0]

\* %d into a uint8: decimal digits, no sign, at most 255
ScanUint8(tok) ==
    IF AllDigits(tok) /\ Len(tok) <= 3 /\ DigitsVal(tok) <= 255
    THEN [ok |-> TRUE, val |-> DigitsVal(tok)]
    ELSE [ok |-> FALSE, val |-> 0]

\* fmt.Sscanf(s, "%d %d", &width, &height)
ScanDimensions(s) ==
    LET fs == Fields(s)
    IN  IF Len(fs) >= 2 /\ ScanInt(fs[1]).ok /\ ScanInt(fs[2]).ok
        THEN [ok |-> TRUE, width |-> ScanInt(fs[1]).val, height |-> ScanInt(fs[2]).val]
        ELSE [ok |-> FALSE, width |-> 0, height |-> 0]

\* fmt.Sscanf(s, "%d", &max) with max a uint8
ScanMax(s) ==
    LET fs == Fields(s)
    IN  IF Len(fs) >= 1 THEN ScanUint8(fs[1]) ELSE [ok |-> FALSE, val |-> 0]

\* the string a magic-number line holds
BytesMagic(b) ==
    CASE b = <<80, 49>> -> "P1"
      [] b = <<80, 50>> -> "P2"
      [] b = <<80, 51>> -> "P3"
      [] b = <<80, 52>> -> "P4"
      [] b = <<80, 53>> -> "P5"
      [] b = <<80, 54>> -> "P6"
      [] OTHER          -> "P7"

\* a failed decode: no image, an error naming what failed and at which row
Fail(msg, y) == [img |-> NoImage, err |-> msg, row |-> y, panic |-> FALSE]

\* a decode that panics (a Go runtime panic: no return value at all)
Panics(msg) == [img |-> NoImage, err |-> msg, row |-> 0 - 1, panic |-> TRUE]

Returns(image) == [img |-> image, err |-> "nil", row |-> 0 - 1, panic |-> FALSE]

\* a sequence of rows as the 0-based grid data[y][x]
Grid(rows) == [y \in 0..(Len(rows) - 1) |-> rows[y + 1]]

---------------------------------------------------------------------------
(* ReadPBM *)

\* the P1 rows from row y on: one line per row, one token per pixel
RECURSIVE ReadP1Rows(_, _, _, _, _, _)
ReadP1Rows(f, rd, width, height, y, rows) ==
    IF y >= height THEN [err |-> "nil", row |-> 0 - 1, rows |-> rows]
    ELSE LET l == ReadString(f, rd, <<>>)
             fields == Fields(l.line)
         IN  IF l.err # "nil"
             THEN [err |-> "error reading data at row", row |-> y, rows |-> rows]
             ELSE IF Len(fields) > width
             THEN [err |-> "index out of range at row", row |-> y, rows |-> rows]
             ELSE ReadP1Rows(f, l.rd, width, height, y + 1,
                     Append(rows, [x \in 0..(width - 1) |->
                                      x < Len(fields) /\ fields[x + 1] = <<49>>]))

\* the P4 rows from row y on: (width + 7) / 8 bytes per row, most
\* significant bit first
RECURSIVE ReadP4Rows(_, _, _, _, _, _)
ReadP4Rows(f, rd, width, height, y, rows) ==
    IF y >= height THEN [err |-> "nil", row |-> 0 - 1, rows |-> rows]
    ELSE LET expectedBytesPerRow == (width + 7) \div 8
             r == Read(f, rd, expectedBytesPerRow)
         IN  IF r.err # "nil" \/ Len(r.bytes) < expectedBytesPerRow
             THEN [err |-> "unexpected end of file at row", row |-> y, rows |-> rows]
             ELSE ReadP4Rows(f, r.rd, width, height, y + 1,
                     Append(rows, [x \in 0..(width - 1) |->
                        ((r.bytes[(x \div 8) + 1] \div (2 ^ (7 - (x % 8)))) % 2) # 0]))

ReadPBM(f) ==
    LET m == ReadString(f, NewReader, <<>>)
        magicNumber == BytesMagic(TrimSpace(m.line))
        d == ReadString(f, m.rd, <<>>)
        dim == ScanDimensions(TrimSpace(d.line))
        body == IF magicNumber = "P1"
                THEN ReadP1Rows(f, d.rd, dim.width, dim.height, 0, <<>>)
                ELSE ReadP4Rows(f, d.rd, dim.width, dim.height, 0, <<>>)
    IN  IF m.err # "nil" THEN Fail("error reading magic number", 0 - 1)
        ELSE IF magicNumber # "P1" /\ magicNumber # "P4"
        THEN Fail("invalid magic number", 0 - 1)
        ELSE IF d.err # "nil" THEN Fail("error reading dimensions", 0 - 1)
        ELSE IF ~dim.ok THEN Fail("invalid dimensions", 0 - 1)
        \* make([][]bool, height) and make([]bool, width) with a negative length
        ELSE IF dim.height < 0 \/ (dim.height > 0 /\ dim.width < 0)
        THEN Panics("makeslice: len out of range")
        ELSE IF body.err # "nil" THEN Fail(body.err, body.row)
        ELSE Returns([kind |-> "PBM", data |-> Grid(body.rows), width |-> dim.width,
                      height |-> dim.height, magicNumber |-> magicNumber])

---------------------------------------------------------------------------
(* ReadPGM *)

\* the pixel values of one P2 line; ok is FALSE when a token is no uint8
P2Row(fields, width) ==
    [ok |-> \A i \in 1..Len(fields) : ScanUint8(fields[i]).ok,
     row |-> [x \in 0..(width - 1) |->
                 IF x < Len(fields) THEN ScanUint8(fields[x + 1]).val ELSE 0]]

RECURSIVE ReadP2Rows(_, _, _, _, _, _)
ReadP2Rows(f, rd, width, height, y, rows) ==
    IF y >= height THEN [err |-> "nil", row |-> 0 - 1, rows |-> rows]
    ELSE LET l == ReadString(f, rd, <<>>)
             fields == Fields(l.line)
         IN  IF l.err # "nil"
             THEN [err |-> "error reading data at row", row |-> y, rows |-> rows]
             \* the tokens are parsed in order: a bad token among the first
             \* width is reported before the surplus one is reached
             ELSE IF \E i \in 1..Min(Len(fields), width) : ~ScanUint8(fields[i]).ok
             THEN [err |-> "error parsing pixel value at row", row |-> y, rows |-> rows]
             ELSE IF Len(fields) > width
             THEN [err |-> "index out of range at row", row |-> y, rows |-> rows]
             ELSE ReadP2Rows(f, l.rd, width, height, y + 1,
                             Append(rows, P2Row(fields, width).row))

RECURSIVE ReadP5Rows(_, _, _, _, _, _)
ReadP5Rows(f, rd, width, height, y, rows) ==
    IF y >= height THEN [err |-> "nil", row |-> 0 - 1, rows |-> rows]
    ELSE LET r == Read(f, rd, width)
         IN  IF r.err # "nil" \/ Len(r.bytes) < width
             THEN [err |-> "unexpected end of file at row", row |-> y, rows |-> rows]
             ELSE ReadP5Rows(f, r.rd, width, height, y + 1,
                             Append(rows, [x \in 0..(width - 1) |-> r.bytes[x + 1]]))

ReadPGM(f) ==
    LET m == ReadString(f, NewReader, <<>>)
        magicNumber == BytesMagic(TrimSpace(m.line))
        d == ReadString(f, m.rd, <<>>)
        dim == ScanDimensions(TrimSpace(d.line))
        v == ReadString(f, d.rd, <<>>)
        max == ScanMax(TrimSpace(v.line))
        body == IF magicNumber = "P2"
                THEN ReadP2Rows(f, v.rd, dim.width, dim.height, 0, <<>>)
                ELSE ReadP5Rows(f, v.rd, dim.width, dim.height, 0, <<>>)
    IN  IF m.err # "nil" THEN Fail("error reading magic number", 0 - 1)
        ELSE IF magicNumber # "P2" /\ magicNumber # "P5"
        THEN Fail("invalid magic number", 0 - 1)
        ELSE IF d.err # "nil" THEN Fail("error reading dimensions", 0 - 1)
        ELSE IF ~dim.ok THEN Fail("invalid dimensions", 0 - 1)
        ELSE IF dim.width <= 0 \/ dim.height <= 0 THEN Fail("invalid dimensions", 0 - 1)
        ELSE IF v.err # "nil" THEN Fail("error reading max value", 0 - 1)
        ELSE IF ~max.ok THEN Fail("invalid max value", 0 - 1)
        ELSE IF body.err # "nil" THEN Fail(body.err, body.row)
        ELSE Returns([kind |-> "PGM", data |-> Grid(body.rows), width |-> dim.width,
                      height |-> dim.height, magicNumber |-> magicNumber,
                      max |-> max.val])

---------------------------------------------------------------------------
(* ReadPPM *)

RECURSIVE ReadP3Rows(_, _, _, _, _, _)
ReadP3Rows(f, rd, width, height, y, rows) ==
    IF y >= height THEN [err |-> "nil", row |-> 0 - 1, rows |-> rows]
    ELSE LET l == ReadString(f, rd, <<>>)
             fields == Fields(l.line)
             \* the first column whose three tokens are missing or no uint8
             bad == {x \in 0..(width - 1) :
                        \/ x * 3 + 2 >= Len(fields)
                        \/ \E c \in 1..3 : ~ScanUint8(fields[x * 3 + c]).ok}
             x0 == CHOOSE x \in bad : \A k \in bad : x <= k
         IN  IF l.err # "nil"
             THEN [err |-> "error reading data at row", row |-> y, rows |-> rows]
             ELSE IF bad # {}
             THEN [err |-> IF x0 * 3 + 2 >= Len(fields)
                           THEN "index out of range at row"
                           ELSE "error parsing pixel value at row",
                   row |-> y, rows |-> rows]
             ELSE ReadP3Rows(f, l.rd, width, height, y + 1,
                     Append(rows, [x \in 0..(width - 1) |->
                                      [R |-> ScanUint8(fields[x * 3 + 1]).val,
                                       G |-> ScanUint8(fields[x * 3 + 2]).val,
                                       B |-> ScanUint8(fields[x * 3 + 3]).val]]))

RECURSIVE ReadP6Rows(_, _, _, _, _, _)
ReadP6Rows(f, rd, width, height, y, rows) ==
    IF y >= height THEN [err |-> "nil", row |-> 0 - 1, rows |-> rows]
    ELSE LET expectedBytesPerPixel == 3
             r == Read(f, rd, width * expectedBytesPerPixel)
         IN  IF r.err # "nil" \/ Len(r.bytes) < width * expectedBytesPerPixel
             THEN [err |-> "unexpected end of file at row", row |-> y, rows |-> rows]
             ELSE ReadP6Rows(f, r.rd, width, height, y + 1,
                     Append(rows, [x \in 0..(width - 1) |->
                                      [R |-> r.bytes[x * expectedBytesPerPixel + 1],
                                       G |-> r.bytes[x * expectedBytesPerPixel + 2],
                                       B |-> r.bytes[x * expectedBytesPerPixel + 3]]]))

ReadPPM(f) ==
    LET m == ReadString(f, NewReader, <<>>)
        magicNumber == BytesMagic(TrimSpace(m.line))
        d == ReadString(f, m.rd, <<>>)
        dim == ScanDimensions(TrimSpace(d.line))
        v == ReadString(f, d.rd, <<>>)
        max == ScanMax(TrimSpace(v.line))
        body == IF magicNumber = "P3"
                THEN ReadP3Rows(f, v.rd, dim.width, dim.height, 0, <<>>)
                ELSE ReadP6Rows(f, v.rd, dim.width, dim.height, 0, <<>>)
    IN  IF m.err # "nil" THEN Fail("error reading magic number", 0 - 1)
        ELSE IF magicNumber # "P3" /\ magicNumber # "P6"
        THEN Fail("invalid magic number", 0 - 1)
        ELSE IF d.err # "nil" THEN Fail("error reading dimensions", 0 - 1)
        ELSE IF ~dim.ok THEN Fail("invalid dimensions", 0 - 1)
        ELSE IF dim.width <= 0 \/ dim.height <= 0 THEN Fail("invalid dimensions", 0 - 1)
        ELSE IF v.err # "nil" THEN Fail("error reading max value", 0 - 1)
        ELSE IF ~max.ok THEN Fail("invalid max value", 0 - 1)
        ELSE IF body.err # "nil" THEN Fail(body.err, body.row)
        ELSE Returns([kind |-> "PPM", data |-> Grid(body.rows), width |-> dim.width,
                      height |-> dim.height, magicNumber |-> magicNumber,
                      max |-> max.val])

---------------------------------------------------------------------------
(* The images a run starts from.  Every field is what a successful Read or *)
(* a struct literal gives: height rows of width samples, each sample at    *)
(* most max.  The cells of a generated image differ from their neighbours, *)
(* so that a misplaced or altered sample shows.                            *)

\* the max values the generated grayscale and color images carry
MaxVals == {1, 100, 255}

PBMImage(w, h, magic, seed) ==
    [kind |-> "PBM",
     data |-> [y \in 0..(h - 1) |-> [x \in 0..(w - 1) |-> (y * w + x + seed) % 3 = 0]],
     width |-> w, height |-> h, magicNumber |-> magic]

PGMImage(w, h, magic, max, seed) ==
    [kind |-> "PGM",
     data |-> [y \in 0..(h - 1) |-> [x \in 0..(w - 1) |->
                  (7 * (y * w + x) + 3 * seed) % (max + 1)]],
     width |-> w, height |-> h, magicNumber |-> magic, max |-> max]

PPMImage(w, h, magic, max, seed) ==
    [kind |-> "PPM",
     data |-> [y \in 0..(h - 1) |-> [x \in 0..(w - 1) |->
                  [R |-> (7 * (y * w + x) + 3 * seed) % (max + 1),
                   G |-> (5 * (y * w + x) + seed + 1) % (max + 1),
                   B |-> (max - ((y * w + x + seed) % (max + 1)))]]],
     width |-> w, height |-> h, magicNumber |-> magic, max |-> max]

Images ==
    {PBMImage(w, h, m, s) : w \in 1..MaxDim, h \in 1..MaxDim, m \in {"P1", "P4"},
                            s \in 0..MaxSeed}
    \cup UNION {{PGMImage(w, h, m, v, s) : w \in 1..MaxDim, h \in 1..MaxDim,
                                          m \in {"P2", "P5"}, s \in 0..MaxSeed}
                : v \in MaxVals}
    \cup UNION {{PPMImage(w, h, m, v, s) : w \in 1..MaxDim, h \in 1..MaxDim,
                                          m \in {"P3", "P6"}, s \in 0..MaxSeed}
                : v \in MaxVals}

\* a grayscale image whose binary file is longer than the reader's buffer
LargeImage == PGMImage(LargeWidth, (defaultBufSize \div LargeWidth) + 1, "P5", 255, 0)

\* the two tokens Save can encode for each struct
Tokens(kind) ==
    CASE kind = "PBM" -> {"P1", "P4"}
      [] kind = "PGM" -> {"P2", "P5"}
      [] kind = "PPM" -> {"P3", "P6"}
      [] OTHER        -> {}

Save(image) ==
    CASE image.kind = "PBM" -> PBMSave(image)
      [] image.kind = "PGM" -> PGMSave(image)
      [] image.kind = "PPM" -> PPMSave(image)

NoResult == [op |-> "none", img |-> NoImage, err |-> "nil", row |-> 0 - 1, panic |-> FALSE]

Result(op, r) ==
    [op |-> op, img |-> r.img, err |-> r.err, row |-> r.row, panic |-> r.panic]

---------------------------------------------------------------------------
(* The codec: a caller holds an image, stores a magic number, saves the    *)
(* image and reads the file back with one of the three decoders.           *)

InitCodec ==
    /\ img \in Images \cup {LargeImage}
    /\ input = img
    /\ file = <<>>
    /\ res = NoResult
    /\ hist = <<>>

SetMagicNumber ==
    /\ img.kind \in {"PBM", "PGM", "PPM"}
    /\ \E magicNumber \in MagicTokens :
          img' = [img EXCEPT !.magicNumber = magicNumber]
    /\ UNCHANGED <<input, file, res, hist>>

SaveImage ==
    /\ img.kind \in {"PBM", "PGM", "PPM"}
    /\ file' = Save(img).file
    /\ res' = [NoResult EXCEPT !.op = "Save", !.err = Save(img).err]
    /\ UNCHANGED <<img, input, hist>>

DoReadPBM ==
    /\ res' = Result("ReadPBM", ReadPBM(file))
    /\ UNCHANGED <<img, input, file, hist>>

DoReadPGM ==
    /\ res' = Result("ReadPGM", ReadPGM(file))
    /\ UNCHANGED <<img, input, file, hist>>

DoReadPPM ==
    /\ res' = Result("ReadPPM", ReadPPM(file))
    /\ UNCHANGED <<img, input, file, hist>>

NextCodec == SetMagicNumber \/ SaveImage \/ DoReadPBM \/ DoReadPGM \/ DoReadPPM

SpecCodec == InitCodec /\ [][NextCodec]_vars

\* the decoder of the struct an image is
ReadOp(kind) ==
    CASE kind = "PBM" -> "ReadPBM"
      [] kind = "PGM" -> "ReadPGM"
      [] kind = "PPM" -> "ReadPPM"
      [] OTHER        -> "none"

\* the file holds what Save writes for img under token m, and the decoder of
\* img's struct has read it
SavedAndRead(m) ==
    /\ img.kind \in {"PBM", "PGM", "PPM"}
    /\ m \in Tokens(img.kind)
    /\ res.op = ReadOp(img.kind)
    /\ file = Save([img EXCEPT !.magicNumber = m]).file

\* the decoder returned the image that was saved: same buffer, width, height
\* and (for grayscale and color) max value
SameImage(a, b) ==
    /\ a.kind = b.kind
    /\ a.data = b.data
    /\ a.width = b.width
    /\ a.height = b.height
    /\ (a.kind # "PBM" => a.max = b.max)

\* C1: for each of the six variants and every image with width >= 1,
\* height >= 1 and channels in 0..255, Save followed by Read of the written
\* bytes returns the identical pixel buffer, width, height and max value,
\* also after SetMagicNumber switched the image between the ASCII and the
\* binary token of its depth.
C1_RoundTrip ==
    \A m \in MagicTokens :
        SavedAndRead(m) => res.err = "nil" /\ ~res.panic /\ SameImage(res.img, img)

\* the round trip of every image whose file fits the reader's buffer
RoundTripWithinBuffer ==
    \A m \in MagicTokens :
        SavedAndRead(m) /\ Len(file) <= defaultBufSize
            => res.err = "nil" /\ ~res.panic /\ SameImage(res.img, img)

---------------------------------------------------------------------------
(* The decoder on files that no Save wrote.  A file is described by its    *)
(* magic number, the width and height its header states, and for each row  *)
(* of pixel data it holds whether the row is one sample short (-1), exact  *)
(* (0) or one sample long (1).                                             *)

ASCIITokens == {"P1", "P2", "P3"}

\* the samples (tokens or bytes) a full row of a width-w image takes
SamplesPerRow(magic, w) ==
    CASE magic \in {"P1", "P2", "P5"} -> w
      [] magic \in {"P3", "P6"}       -> 3 * w
      [] OTHER                         -> (w + 7) \div 8

\* the samples row y of the described file supplies
Supplied(d, y) == Max(0, SamplesPerRow(d.magic, d.width) + d.rows[y + 1])

\* the value of sample i of row y: 0 or 1 in a bitmap, a byte otherwise
SampleAt(d, y, i) ==
    IF d.magic = "P1" THEN (y + i + 1) % 2 ELSE (16 * y + 3 * i + 1) % 256

FileRow(d, y) ==
    IF d.magic \in ASCIITokens
    THEN Flatten([k \in 1..Supplied(d, y) |->
                     FormatInt(SampleAt(d, y, k - 1))
                     \o (IF k < Supplied(d, y) THEN <<SP>> ELSE <<>>)])
         \o <<NL>>
    ELSE [k \in 1..Supplied(d, y) |-> SampleAt(d, y, k - 1)]

FileOf(d) ==
    MagicBytes(d.magic) \o <<NL>> \o FormatInt(d.width) \o <<SP>>
    \o FormatInt(d.height) \o <<NL>>
    \o (IF d.magic \in {"P1", "P4"} THEN <<>> ELSE FormatInt(255) \o <<NL>>)
    \o Flatten([j \in 1..Len(d.rows) |-> FileRow(d, j - 1)])

RowShapes == UNION {[1..n -> {0 - 1, 0, 1}] : n \in 0..MaxLines}

Descriptions ==
    [magic : {"P1", "P2", "P3", "P4", "P5", "P6"},
     width : (0 - 1)..MaxHeader, height : (0 - 1)..MaxHeader,
     rows : RowShapes]

InitDecode ==
    /\ input \in Descriptions
    /\ file = FileOf(input)
    /\ img = NoImage
    /\ res = NoResult
    /\ hist = <<>>

NextDecode == DoReadPBM \/ DoReadPGM \/ DoReadPPM

SpecDecode == InitDecode /\ [][NextDecode]_vars

\* the decoder for the file's magic number has run on the described file
Decoded ==
    \/ res.op = "ReadPBM" /\ input.magic \in {"P1", "P4"}
    \/ res.op = "ReadPGM" /\ input.magic \in {"P2", "P5"}
    \/ res.op = "ReadPPM" /\ input.magic \in {"P3", "P6"}

\* C7: for all six variants, decoding a stream whose header gives
\* width <= 0 or height <= 0 fails with an invalid-dimensions error and
\* returns no image; it neither succeeds nor panics.
C7_NonPositiveDimensionsRejected ==
    Decoded /\ (input.width <= 0 \/ input.height <= 0)
        => res.err = "invalid dimensions" /\ res.img = NoImage /\ ~res.panic

\* the rows before row y are all there and exact
ExactBefore(d, y) == Len(d.rows) >= y /\ \A k \in 1..y : d.rows[k] = 0

\* row y of the described file is missing or supplies too few samples
ShortRow(d, y) == Len(d.rows) < y + 1 \/ d.rows[y + 1] < 0

\* C8: for every ASCII variant, if a pixel row supplies fewer tokens than
\* required (width for bitmap and grayscale, 3 * width for color), decoding
\* fails with an error identifying that row and returns no image; a short
\* row is never accepted with the missing samples defaulted.
C8_ShortRowRejected ==
    \A y \in 0..(MaxHeader - 1) :
        /\ Decoded /\ input.magic \in ASCIITokens
        /\ input.width >= 1 /\ y < input.height
        /\ ExactBefore(input, y) /\ ShortRow(input, y)
        => res.err # "nil" /\ res.row = y /\ res.img = NoImage

\* C9: when a P1 pixel row contains more than width tokens, decoding
\* succeeds and the row's samples are its first width tokens.
C9_SurplusTokensIgnored ==
    /\ Decoded /\ input.magic = "P1"
    /\ input.width >= 1 /\ input.height >= 1 /\ Len(input.rows) >= input.height
    /\ \A k \in 1..input.height : input.rows[k] >= 0
    /\ \E k \in 1..input.height : input.rows[k] > 0
    => /\ res.err = "nil"
       /\ res.img.kind = "PBM"
       /\ \A y \in 0..(input.height - 1) : \A x \in 0..(input.width - 1) :
             res.img.data[y][x] = (SampleAt(input, y, x) = 1)

---------------------------------------------------------------------------
(* Invert, Flip, Flop, SetMaxValue, Rotate90CW of the three structs. *)

\* uint8 arithmetic wraps modulo 256
Uint8(n) == n % 256

PBMInvert(pbm) ==
    [pbm EXCEPT !.data = [y \in 0..(pbm.height - 1) |->
                             [x \in 0..(pbm.width - 1) |-> ~pbm.data[y][x]]]]

PGMInvert(pgm) ==
    [pgm EXCEPT !.data = [i \in DOMAIN pgm.data |->
                             [j \in DOMAIN pgm.data[i] |-> Uint8(pgm.max - pgm.data[i][j])]]]

PPMInvert(ppm) ==
    [ppm EXCEPT !.data = [y \in 0..(ppm.height - 1) |->
                             [x \in 0..(ppm.width - 1) |->
                                 [R |-> Uint8(255 - ppm.data[y][x].R),
                                  G |-> Uint8(255 - ppm.data[y][x].G),
                                  B |-> Uint8(255 - ppm.data[y][x].B)]]]]

\* the loop of PBM.Flip and PPM.Flip on one row: for x < width / 2, swap
\* cells x and width - x - 1
RECURSIVE FlipRow(_, _, _)
FlipRow(row, width, x) ==
    IF x >= width \div 2 THEN row
    ELSE FlipRow([row EXCEPT ![x] = row[width - x - 1], ![width - x - 1] = row[x]],
                 width, x + 1)

\* the loop of PGM.Flip on one row: swap cells j and k while j < k
RECURSIVE PGMFlipRow(_, _, _)
PGMFlipRow(row, j, k) ==
    IF j >= k THEN row
    ELSE PGMFlipRow([row EXCEPT ![j] = row[k], ![k] = row[j]], j + 1, k - 1)

PBMFlip(pbm) ==
    [pbm EXCEPT !.data = [y \in 0..(pbm.height - 1) |-> FlipRow(pbm.data[y], pbm.width, 0)]]

\* PGM.Flip with the two assignments of the swap made one after the other:
\* data[i][j] = data[i][k], then data[i][k] = data[i][j]
PGMFlipOverwrite(pgm) ==
    [pgm EXCEPT !.data = [i \in DOMAIN pgm.data |->
                             [j \in DOMAIN pgm.data[i] |->
                                 LET k == Cardinality(DOMAIN pgm.data[i]) - 1 - j
                                 IN  IF j < k THEN pgm.data[i][k] ELSE pgm.data[i][j]]]]

PGMFlip(pgm) ==
    [pgm EXCEPT !.data = [i \in DOMAIN pgm.data |->
                             PGMFlipRow(pgm.data[i], 0, Cardinality(DOMAIN pgm.data[i]) - 1)]]

PPMFlip(ppm) ==
    [ppm EXCEPT !.data = [y \in 0..(ppm.height - 1) |-> FlipRow(ppm.data[y], ppm.width, 0)]]

\* the loop of the three Flop methods: for y < height / 2, swap rows y and
\* height - y - 1
RECURSIVE FlopRows(_, _, _)
FlopRows(data, height, y) ==
    IF y >= height \div 2 THEN data
    ELSE FlopRows([data EXCEPT ![y] = data[height - y - 1], ![height - y - 1] = data[y]],
                  height, y + 1)

PBMFlop(pbm) == [pbm EXCEPT !.data = FlopRows(pbm.data, pbm.height, 0)]

PGMFlop(pgm) == [pgm EXCEPT !.data = FlopRows(pgm.data, pgm.height, 0)]

PPMFlop(ppm) == [ppm EXCEPT !.data = FlopRows(ppm.data, ppm.height, 0)]

\* the ways a build may convert a float64 that no uint8 can hold: keep the
\* low eight bits of its integer part, or saturate
Conversions == {"wrap", "saturate"}

\* a rescale computed in 8 bits: the product wraps before the division
RescaleNarrow(c, maxValue, max, conv) ==
    ((c * maxValue) % 256) \div max

\* uint8(float64(c) * float64(maxValue) / float64(max)): the quotient
\* truncated toward zero; implementation-dependent above 255
Rescale(c, maxValue, max, conv) ==
    LET q == (c * maxValue) \div max
    IN  IF q <= 255 THEN q ELSE IF conv = "wrap" THEN q % 256 ELSE 255

PGMSetMaxValue(pgm, maxValue, conv) ==
    [pgm EXCEPT !.data = [y \in 0..(pgm.height - 1) |->
                             [x \in 0..(pgm.width - 1) |->
                                 Rescale(pgm.data[y][x], maxValue, pgm.max, conv)]],
                !.max = maxValue]

PPMSetMaxValue(ppm, maxValue, conv) ==
    [ppm EXCEPT !.data = [y \in 0..(ppm.height - 1) |->
                             [x \in 0..(ppm.width - 1) |->
                                 [R |-> Rescale(ppm.data[y][x].R, maxValue, ppm.max, conv),
                                  G |-> Rescale(ppm.data[y][x].G, maxValue, ppm.max, conv),
                                  B |-> Rescale(ppm.data[y][x].B, maxValue, ppm.max, conv)]]],
                !.max = maxValue]

\* newData[i][j] = data[height - j - 1][i], then width and height swap
PGMRotate90CW(pgm) ==
    IF pgm.width <= 0 \/ pgm.height <= 0 THEN pgm
    ELSE [pgm EXCEPT !.data = [i \in 0..(pgm.width - 1) |->
                                  [j \in 0..(pgm.height - 1) |->
                                      pgm.data[pgm.height - j - 1][i]]],
                     !.width = pgm.height, !.height = pgm.width]

\* newPPM.data[x][height - y - 1] = data[y][x] for every cell of the old
\* grid: cell [r][c] of the new grid is the old cell [height - 1 - c][r]
PPMRotate90CW(ppm) ==
    [ppm EXCEPT !.data = [r \in 0..(ppm.width - 1) |->
                             [c \in 0..(ppm.height - 1) |->
                                 ppm.data[ppm.height - 1 - c][r]]],
                !.width = ppm.height, !.height = ppm.width]

Invert(image) ==
    CASE image.kind = "PBM" -> PBMInvert(image)
      [] image.kind = "PGM" -> PGMInvert(image)
      [] image.kind = "PPM" -> PPMInvert(image)

Flip(image) ==
    CASE image.kind = "PBM" -> PBMFlip(image)
      [] image.kind = "PGM" -> PGMFlip(image)
      [] image.kind = "PPM" -> PPMFlip(image)

Flop(image) ==
    CASE image.kind = "PBM" -> PBMFlop(image)
      [] image.kind = "PGM" -> PGMFlop(image)
      [] image.kind = "PPM" -> PPMFlop(image)

SetMaxValue(image, maxValue, conv) ==
    CASE image.kind = "PGM" -> PGMSetMaxValue(image, maxValue, conv)
      [] image.kind = "PPM" -> PPMSetMaxValue(image, maxValue, conv)

Rotate90CW(image) ==
    CASE image.kind = "PGM" -> PGMRotate90CW(image)
      [] image.kind = "PPM" -> PPMRotate90CW(image)

---------------------------------------------------------------------------
(* Tonal operations: a caller inverts an image and sets its max value, in  *)
(* any order, at most MaxOps calls on one image.                           *)

\* the max values a caller passes to SetMaxValue (max values are 1..255)
NewMaxVals == {1, 100, 255}

InitTonal ==
    /\ img \in Images
    /\ input = img
    /\ file = <<>>
    /\ res = NoResult
    /\ hist = <<>>

DoInvert ==
    /\ img.kind \in {"PBM", "PGM", "PPM"}
    /\ Len(hist) < MaxOps
    /\ img' = Invert(img)
    /\ hist' = Append(hist, "Invert")
    /\ res' = [NoResult EXCEPT !.op = "Invert"]
    /\ UNCHANGED <<input, file>>

DoSetMaxValue ==
    /\ img.kind \in {"PGM", "PPM"}
    /\ Len(hist) < MaxOps
    /\ \E maxValue \in NewMaxVals : \E conv \in Conversions :
          img' = SetMaxValue(img, maxValue, conv)
    /\ hist' = Append(hist, "SetMaxValue")
    /\ res' = [NoResult EXCEPT !.op = "SetMaxValue"]
    /\ UNCHANGED <<input, file>>

NextTonal == DoInvert \/ DoSetMaxValue

SpecTonal == InitTonal /\ [][NextTonal]_vars

\* the channels of a cell: the sample itself, or R, G and B
Channels(image, y, x) ==
    IF image.kind = "PPM"
    THEN {image.data[y][x].R, image.data[y][x].G, image.data[y][x].B}
    ELSE {image.data[y][x]}

\* every stored channel is at most the image's max value
SampleBound(image) ==
    \A y \in 0..(image.height - 1) : \A x \in 0..(image.width - 1) :
        \A c \in Channels(image, y, x) : c <= image.max

\* the image with every channel c replaced by max - c
Complement(image) ==
    [image EXCEPT !.data =
        [y \in 0..(image.height - 1) |-> [x \in 0..(image.width - 1) |->
            IF image.kind = "PPM"
            THEN [R |-> image.max - image.data[y][x].R,
                  G |-> image.max - image.data[y][x].G,
                  B |-> image.max - image.data[y][x].B]
            ELSE image.max - image.data[y][x]]]]

\* C5: Invert on a grayscale or color image whose channels are at most its
\* max value replaces every channel c by max - c, with the image's own max
\* value, and leaves width, height, magic number and max value unchanged.
C5_InvertUsesMaxValue ==
    [][(res'.op = "Invert" /\ img.kind \in {"PGM", "PPM"} /\ SampleBound(img))
          => img' = Complement(img)]_vars

\* C6: starting from a grayscale or color image in which every channel is at
\* most the max value, after any sequence of Invert and SetMaxValue every
\* stored channel is at most the image's current max value.
C6_SampleBoundKept == img.kind \in {"PGM", "PPM"} => SampleBound(img)

---------------------------------------------------------------------------
(* Geometric operations: Flip, Flop and Rotate90CW, at most MaxOps calls   *)
(* on one image.                                                           *)

InitGeom ==
    /\ img \in Images
    /\ input = img
    /\ file = <<>>
    /\ res = NoResult
    /\ hist = <<>>

DoFlip ==
    /\ img.kind \in {"PBM", "PGM", "PPM"}
    /\ Len(hist) < MaxOps
    /\ img' = Flip(img)
    /\ hist' = Append(hist, "Flip")
    /\ res' = [NoResult EXCEPT !.op = "Flip"]
    /\ UNCHANGED <<input, file>>

DoFlop ==
    /\ img.kind \in {"PBM", "PGM", "PPM"}
    /\ Len(hist) < MaxOps
    /\ img' = Flop(img)
    /\ hist' = Append(hist, "Flop")
    /\ res' = [NoResult EXCEPT !.op = "Flop"]
    /\ UNCHANGED <<input, file>>

DoRotate90CW ==
    /\ img.kind \in {"PGM", "PPM"}
    /\ Len(hist) < MaxOps
    /\ img' = Rotate90CW(img)
    /\ hist' = Append(hist, "Rotate90CW")
    /\ res' = [NoResult EXCEPT !.op = "Rotate90CW"]
    /\ UNCHANGED <<input, file>>

NextGeom == DoFlip \/ DoFlop \/ DoRotate90CW

SpecGeom == InitGeom /\ [][NextGeom]_vars

\* C10: Flip applied twice and Flop applied twice each restore the original
\* buffer exactly for bitmap, grayscale and color images of any dimensions,
\* and Rotate90CW applied four times restores the original buffer, width and
\* height for grayscale and color images.
C10_FlipFlopRotateRestore ==
    /\ hist = <<"Flip", "Flip">> => img = input
    /\ hist = <<"Flop", "Flop">> => img = input
    /\ hist = <<"Rotate90CW", "Rotate90CW", "Rotate90CW", "Rotate90CW">> => img = input

\* a 3 x 2 color image has been rotated four times, and one rotation had
\* moved its cells
C10_Witness ==
    /\ hist = <<"Rotate90CW", "Rotate90CW", "Rotate90CW", "Rotate90CW">>
    /\ img.kind = "PPM" /\ img.width = 3 /\ img.height = 2
    /\ Rotate90CW(img) # img

---------------------------------------------------------------------------
(* The pixel setters and the drawing methods of PPM.  Each returns the     *)
(* image after the call and whether the call panicked.                     *)

Done(image) == [img |-> image, panic |-> FALSE]

\* a panic unwinds the call: the image is as it was before the statement
\* that panicked
Panicked(image) == [img |-> image, panic |-> TRUE]

InBounds(image, x, y) == x >= 0 /\ x < image.width /\ y >= 0 /\ y < image.height

\* pbm.data[y][x] = value: the index expressions panic out of range
PBMSet(pbm, x, y, value) ==
    IF y < 0 \/ y >= pbm.height \/ x < 0 \/ x >= pbm.width
    THEN Panicked(pbm)
    ELSE Done([pbm EXCEPT !.data[y][x] = value])

PGMSet(pgm, x, y, value) ==
    IF x >= 0 /\ x < pgm.width /\ y >= 0 /\ y < pgm.height
    THEN Done([pgm EXCEPT !.data[y][x] = value])
    ELSE Done(pgm)

\* a Set that clips like the raster primitive instead of panicking
PPMSetClipped(ppm, x, y, value) ==
    IF x < 0 \/ x >= ppm.width \/ y < 0 \/ y >= ppm.height
    THEN Done(ppm)
    ELSE Done([ppm EXCEPT !.data[y][x] = value])

PPMSet(ppm, x, y, value) ==
    IF x < 0 \/ x >= ppm.width \/ y < 0 \/ y >= ppm.height
    THEN Panicked(ppm)
    ELSE Done([ppm EXCEPT !.data[y][x] = value])

\* PPM.SetPixel(p, color)
SetPixel(ppm, p, color) ==
    IF p.X >= 0 /\ p.X < ppm.width /\ p.Y >= 0 /\ p.Y < ppm.height
    THEN [ppm EXCEPT !.data[p.Y][p.X] = color]
    ELSE ppm

\* PPM.setPixel(x, y, color)
setPixel(ppm, x, y, color) ==
    IF x >= 0 /\ x < ppm.width /\ y >= 0 /\ y < ppm.height
    THEN [ppm EXCEPT !.data[y][x] = color]
    ELSE ppm

abs(x) == IF x < 0 THEN 0 - x ELSE x

\* a line loop that tests for the end point before plotting it
RECURSIVE DrawLineLoopOpenEnd(_, _, _, _, _, _, _, _, _)
DrawLineLoopOpenEnd(x1, y1, x2, y2, dx, dy, sx, sy, err) ==
    LET e2 == 2 * err
        err1 == IF e2 > 0 - dy THEN err - dy ELSE err
        nx == IF e2 > 0 - dy THEN x1 + sx ELSE x1
        err2 == IF e2 < dx THEN err1 + dx ELSE err1
        ny == IF e2 < dx THEN y1 + sy ELSE y1
    IN  IF x1 = x2 /\ y1 = y2 THEN <<>>
        ELSE <<[X |-> x1, Y |-> y1]>>
                 \o DrawLineLoopOpenEnd(nx, ny, x2, y2, dx, dy, sx, sy, err2)

\* the loop of DrawLine: the points it passes to SetPixel, in order; it
\* visits (x1, y1), stops at (x2, y2), else steps
RECURSIVE DrawLineLoop(_, _, _, _, _, _, _, _, _)
DrawLineLoop(x1, y1, x2, y2, dx, dy, sx, sy, err) ==
    LET e2 == 2 * err
        err1 == IF e2 > 0 - dy THEN err - dy ELSE err
        nx == IF e2 > 0 - dy THEN x1 + sx ELSE x1
        err2 == IF e2 < dx THEN err1 + dx ELSE err1
        ny == IF e2 < dx THEN y1 + sy ELSE y1
    IN  IF x1 = x2 /\ y1 = y2 THEN <<[X |-> x1, Y |-> y1]>>
        ELSE <<[X |-> x1, Y |-> y1]>>
                 \o DrawLineLoop(nx, ny, x2, y2, dx, dy, sx, sy, err2)

\* SetPixel called with the same color at each point of ps in turn: a cell
\* holds what the last call at its coordinates stored, or what it held
SetPixels(ppm, ps, color) ==
    [ppm EXCEPT !.data =
        [y \in 0..(ppm.height - 1) |->
            [x \in 0..(ppm.width - 1) |->
                LET calls == {i \in 1..Len(ps) : ps[i] = [X |-> x, Y |-> y]}
                IN  IF calls = {} THEN ppm.data[y][x]
                    ELSE SetPixel(ppm, ps[CHOOSE i \in calls : \A j \in calls : j <= i],
                                  color).data[y][x]]]]

\* the points DrawLine passes to SetPixel, first to last
DrawLinePoints(p1, p2) ==
    LET dx == abs(p2.X - p1.X)
        dy == abs(p2.Y - p1.Y)
        sx == IF p1.X < p2.X THEN 1 ELSE 0 - 1
        sy == IF p1.Y < p2.Y THEN 1 ELSE 0 - 1
    IN  DrawLineLoop(p1.X, p1.Y, p2.X, p2.Y, dx, dy, sx, sy, dx - dy)

DrawLine(ppm, p1, p2, color) ==
    SetPixels(ppm, DrawLinePoints(p1, p2), color)

\* the points of successive DrawLine calls, one call per segment of segs
RECURSIVE SegmentsPoints(_, _)
SegmentsPoints(segs, i) ==
    IF i > Len(segs) THEN <<>>
    ELSE DrawLinePoints(segs[i].p1, segs[i].p2) \o SegmentsPoints(segs, i + 1)

\* DrawLine called for each segment of segs in turn
DrawLines(ppm, segs, color) ==
    SetPixels(ppm, SegmentsPoints(segs, 1), color)

DrawRectangle(ppm, p1, width, height, color) ==
    LET p2 == [X |-> p1.X + width, Y |-> p1.Y]
        p3 == [X |-> p1.X + width, Y |-> p1.Y + height]
        p4 == [X |-> p1.X, Y |-> p1.Y + height]
    IN  DrawLine(DrawLine(DrawLine(DrawLine(ppm, p1, p2, color), p2, p3, color),
                          p3, p4, color), p4, p1, color)

\* the loop of DrawFilledRectangle: for w from width down to 1, draw the
\* rectangle of width w at p1 and move p1 one to the right
RECURSIVE FilledRectangleLoop(_, _, _, _, _)
FilledRectangleLoop(ppm, p1, w, height, color) ==
    IF w <= 0 THEN ppm
    ELSE FilledRectangleLoop(DrawRectangle(ppm, p1, w, height, color),
                             [p1 EXCEPT !.X = p1.X + 1], w - 1, height, color)

DrawFilledRectangle(ppm, p1, width, height, color) ==
    IF width <= 0 \/ height <= 0 THEN ppm
    ELSE FilledRectangleLoop(ppm, p1, width, height, color)

DrawTriangle(ppm, p1, p2, p3, color) ==
    DrawLine(DrawLine(DrawLine(ppm, p1, p2, color), p2, p3, color), p3, p1, color)

\* the first loop of DrawPolygon: the lines points[i] -- points[i+1]; points
\* is a sequence, points[i + 1] here being the source's points[i]
RECURSIVE PolygonSides(_, _, _, _)
PolygonSides(ppm, points, i, color) ==
    IF i >= Len(points) - 1 THEN ppm
    ELSE PolygonSides(DrawLine(ppm, points[i + 1], points[i + 2], color),
                      points, i + 1, color)

\* with no points, points[len(points)-1] is points[-1]: index out of range
DrawPolygon(ppm, points, color) ==
    IF Len(points) = 0 THEN Panicked(ppm)
    ELSE Done(DrawLine(PolygonSides(ppm, points, 0, color),
                       points[Len(points)], points[1], color))

\* int(x + 0.5) for x = num / den, den # 0: Go truncates toward zero.  The
\* float64 sum the source accumulates equals this exact value for the
\* slopes of the model: their denominators are at most 5, so x + 0.5 is a
\* whole number only for denominators 2 and 4, which float64 adds exactly.
IntHalfUp(num, den) ==
    LET n == IF den > 0 THEN 2 * num + den ELSE 0 - (2 * num + den)
        d == IF den > 0 THEN 2 * den ELSE 0 - 2 * den
    IN  IF n >= 0 THEN n \div d ELSE 0 - ((0 - n) \div d)

\* int(x + 0.5) after k additions of slope = dx / dy to x0; no slope is added
\* before the first conversion
SlopeX(x0, dx, dy, k) ==
    IF k = 0 THEN IntHalfUp(x0, 1) ELSE IntHalfUp(x0 * dy + k * dx, dy)

Segment(xa, xb, y) == [p1 |-> [X |-> xa, Y |-> y], p2 |-> [X |-> xb, Y |-> y]]

\* the vertex order DrawFilledTriangle works with: Corners[0], [1], [2] of
\* the source are elements 1, 2, 3
FilledTriangleCorners(p1, p2, p3) ==
    IF p1.Y <= p2.Y /\ p1.Y <= p3.Y THEN <<p1, p2, p3>>
    ELSE IF p2.Y <= p1.Y /\ p2.Y <= p3.Y THEN <<p2, p1, p3>>
    ELSE <<p3, p1, p2>>

\* the DrawLine calls of DrawFilledTriangle, in order: the loop from
\* Corners[0].Y to Corners[1].Y, then the loop from Corners[1].Y + 1 to
\* Corners[2].Y with x2 started again at Corners[1].X
FilledTriangleSpans(p1, p2, p3) ==
    LET c == FilledTriangleCorners(p1, p2, p3)
        dx1 == c[3].X - c[1].X
        dy1 == c[3].Y - c[1].Y
        dx2 == c[3].X - c[2].X
        dy2 == c[3].Y - c[2].Y
        n1 == c[2].Y - c[1].Y + 1
        n2 == Max(0, c[3].Y - c[2].Y)
    IN  [k \in 1..n1 |->
            Segment(SlopeX(c[1].X, dx1, dy1, k - 1), SlopeX(c[2].X, dx2, dy2, k - 1),
                    c[1].Y + k - 1)]
        \o [j \in 1..n2 |->
              Segment(SlopeX(c[1].X, dx1, dy1, n1 + j - 1), SlopeX(c[2].X, dx2, dy2, j - 1),
                      c[2].Y + j)]

\* every float DrawFilledTriangle converts to int is finite: a slope with a
\* zero denominator is +Inf, -Inf or NaN, and is converted once it has been
\* added and a further DrawLine call follows
FilledTriangleFinite(p1, p2, p3) ==
    LET c == FilledTriangleCorners(p1, p2, p3)
        n1 == c[2].Y - c[1].Y + 1
        n2 == Max(0, c[3].Y - c[2].Y)
    IN  /\ c[3].Y = c[1].Y => n1 + n2 = 1
        /\ c[3].Y = c[2].Y => n1 = 1

DrawFilledTriangle(ppm, p1, p2, p3, color) ==
    DrawLines(ppm, FilledTriangleSpans(p1, p2, p3), color)

\* the entries edge i (points[i] to the next point, cyclically; i from 1)
\* and the edges after it append to the scanline y
RECURSIVE ScanlineEntries(_, _, _)
ScanlineEntries(points, y, i) ==
    IF i > Len(points) THEN <<>>
    ELSE LET p1 == points[i]
             p2 == points[(i % Len(points)) + 1]
             start == IF p1.Y <= p2.Y THEN p1 ELSE p2
             end == IF p1.Y <= p2.Y THEN p2 ELSE p1
         IN  (IF start.Y <= y /\ y <= end.Y
              THEN <<SlopeX(start.X, end.X - start.X, end.Y - start.Y, y - start.Y)>>
              ELSE <<>>)
             \o ScanlineEntries(points, y, i + 1)

\* the DrawLine calls for one scanline: between entries j and j + 1 (from 0)
\* for j = 0, step, 2 * step, ... while j < len - 1
ScanlineSpans(xs, y, step) ==
    LET js == {j \in 0..(Len(xs) - 2) : j % step = 0}
        n == Cardinality(js)
    IN  [k \in 1..n |-> Segment(xs[step * (k - 1) + 1], xs[step * (k - 1) + 2], y)]

\* the DrawLine calls for the scanlines from index i on: rows of even index
\* advance j by 2, rows of odd index by 1
RECURSIVE FilledPolygonSpans(_, _, _, _)
FilledPolygonSpans(points, minY, maxY, i) ==
    IF i > maxY - minY THEN <<>>
    ELSE ScanlineSpans(ScanlineEntries(points, i + minY, 1), i + minY,
                       IF i % 2 = 0 THEN 2 ELSE 1)
         \o FilledPolygonSpans(points, minY, maxY, i + 1)

PolygonMinY(points) ==
    CHOOSE m \in {points[i].Y : i \in 1..Len(points)} :
        \A i \in 1..Len(points) : m <= points[i].Y

PolygonMaxY(points) ==
    CHOOSE m \in {points[i].Y : i \in 1..Len(points)} :
        \A i \in 1..Len(points) : m >= points[i].Y

\* with no points, points[0] is out of range
DrawFilledPolygon(ppm, points, color) ==
    IF Len(points) = 0 THEN Panicked(ppm)
    ELSE Done(DrawLines(ppm,
                        FilledPolygonSpans(points, PolygonMinY(points),
                                           PolygonMaxY(points), 0),
                        color))

---------------------------------------------------------------------------
(* Setting pixels and drawing: a run is one call on one canvas, both drawn *)
(* in the initial state.                                                   *)

\* the color drawn with; no cell of a canvas holds it
Ink == [R |-> 200, G |-> 100, B |-> 50]

DrawCanvases ==
    {PPMImage(w, h, "P3", 255, s) : w \in 1..MaxDim, h \in 1..MaxDim, s \in 0..MaxSeed}

SetCanvases ==
    DrawCanvases
    \cup {PBMImage(w, h, "P1", s) : w \in 1..MaxDim, h \in 1..MaxDim, s \in 0..MaxSeed}
    \cup {PGMImage(w, h, "P2", 255, s) : w \in 1..MaxDim, h \in 1..MaxDim, s \in 0..MaxSeed}

\* coordinates from one left of (above) every canvas to the width (height)
\* of the largest
Coords == (0 - 1)..MaxDim

Points == [X : Coords, Y : Coords]

\* the vertices triangles are drawn through
Corners == {p \in Points : p.X \in {0 - 1, 1, MaxDim} /\ p.Y \in {0 - 1, 1, MaxDim}}

\* the vertices polygons are drawn through
PolygonPoints ==
    {[X |-> 0 - 1, Y |-> 0 - 1], [X |-> 1, Y |-> 1], [X |-> MaxDim, Y |-> 0],
     [X |-> 0, Y |-> MaxDim]}

DrawInputs ==
    [canvas : SetCanvases, call : [op : {"Set"}, x : Coords, y : Coords]]
    \cup [canvas : DrawCanvases,
          call : [op : {"SetPixel", "setPixel"}, x : Coords, y : Coords]]
    \cup [canvas : DrawCanvases, call : [op : {"DrawLine"}, p1 : Points, p2 : Points]]
    \cup [canvas : DrawCanvases,
          call : [op : {"DrawRectangle", "DrawFilledRectangle"}, p1 : Points,
                  width : Coords, height : Coords]]
    \cup [canvas : DrawCanvases,
          call : [op : {"DrawTriangle"}, p1 : Corners, p2 : Corners, p3 : Corners]]
    \cup [canvas : DrawCanvases,
          call : [op : {"DrawFilledTriangle"}, p1 : Corners, p2 : Corners, p3 : Corners]
                     \ {c \in [op : {"DrawFilledTriangle"}, p1 : Corners, p2 : Corners,
                               p3 : Corners] : ~FilledTriangleFinite(c.p1, c.p2, c.p3)}]
    \cup [canvas : DrawCanvases,
          call : [op : {"DrawPolygon", "DrawFilledPolygon"},
                  points : UNION {[1..n -> PolygonPoints] : n \in 0..MaxPoints}]]

InitDraw ==
    /\ input \in DrawInputs
    /\ img = input.canvas
    /\ file = <<>>
    /\ res = NoResult
    /\ hist = <<>>

\* the call of the run has not been made yet
Pending(op) == res.op = "none" /\ input.call.op = op

\* the value Set stores: a sample of the canvas's kind
SetValue(kind) ==
    CASE kind = "PBM" -> TRUE
      [] kind = "PGM" -> 200
      [] kind = "PPM" -> Ink

Set(image, x, y) ==
    CASE image.kind = "PBM" -> PBMSet(image, x, y, SetValue("PBM"))
      [] image.kind = "PGM" -> PGMSet(image, x, y, SetValue("PGM"))
      [] image.kind = "PPM" -> PPMSet(image, x, y, SetValue("PPM"))

Called(op, r) ==
    /\ img' = r.img
    /\ res' = [NoResult EXCEPT !.op = op, !.panic = r.panic]
    /\ UNCHANGED <<input, file, hist>>

DoSet ==
    /\ Pending("Set")
    /\ Called("Set", Set(img, input.call.x, input.call.y))

DoSetPixel ==
    /\ Pending("SetPixel")
    /\ Called("SetPixel",
              Done(SetPixel(img, [X |-> input.call.x, Y |-> input.call.y], Ink)))

DoSetPixelInternal ==
    /\ Pending("setPixel")
    /\ Called("setPixel", Done(setPixel(img, input.call.x, input.call.y, Ink)))

DoDrawLine ==
    /\ Pending("DrawLine")
    /\ Called("DrawLine", Done(DrawLine(img, input.call.p1, input.call.p2, Ink)))

DoDrawRectangle ==
    /\ Pending("DrawRectangle")
    /\ Called("DrawRectangle",
              Done(DrawRectangle(img, input.call.p1, input.call.width,
                                 input.call.height, Ink)))

DoDrawFilledRectangle ==
    /\ Pending("DrawFilledRectangle")
    /\ Called("DrawFilledRectangle",
              Done(DrawFilledRectangle(img, input.call.p1, input.call.width,
                                       input.call.height, Ink)))

DoDrawTriangle ==
    /\ Pending("DrawTriangle")
    /\ Called("DrawTriangle",
              Done(DrawTriangle(img, input.call.p1, input.call.p2, input.call.p3, Ink)))

DoDrawPolygon ==
    /\ Pending("DrawPolygon")
    /\ Called("DrawPolygon", DrawPolygon(img, input.call.points, Ink))

\* the calls of the model are those in which every conversion to int is of
\* a finite float (FilledTriangleFinite); the result of the others depends
\* on the build
DoDrawFilledTriangle ==
    /\ Pending("DrawFilledTriangle")
    /\ Called("DrawFilledTriangle",
              Done(DrawFilledTriangle(img, input.call.p1, input.call.p2,
                                      input.call.p3, Ink)))

DoDrawFilledPolygon ==
    /\ Pending("DrawFilledPolygon")
    /\ Called("DrawFilledPolygon", DrawFilledPolygon(img, input.call.points, Ink))

NextDraw ==
    \/ DoSet \/ DoSetPixel \/ DoSetPixelInternal \/ DoDrawLine \/ DoDrawRectangle
    \/ DoDrawFilledRectangle \/ DoDrawTriangle \/ DoDrawPolygon
    \/ DoDrawFilledTriangle \/ DoDrawFilledPolygon

SpecDraw == InitDraw /\ [][NextDraw]_vars

\* the call of the run has been made and was op
Made(op) == res.op = op /\ input.call.op = op

\* the call's coordinates are outside [0, width) x [0, height)
Outside == ~InBounds(input.canvas, input.call.x, input.call.y)

DrawingOps ==
    {"DrawLine", "DrawRectangle", "DrawFilledRectangle", "DrawTriangle", "DrawPolygon",
     "DrawFilledTriangle", "DrawFilledPolygon"}

\* C3: the drawing methods complete without panic for any coordinates,
\* sizes and vertex lists of any length, and change only cells inside
\* [0, width) x [0, height): the grid keeps its width and height.
C3_DrawingNeverFails ==
    res.op \in DrawingOps
        => /\ ~res.panic
           /\ img.width = input.canvas.width /\ img.height = input.canvas.height
           /\ DOMAIN img.data = DOMAIN input.canvas.data
           /\ \A y \in DOMAIN img.data : DOMAIN img.data[y] = DOMAIN input.canvas.data[y]

\* C4: DrawFilledRectangle(p, w, h, color) with w > 0 and h > 0 sets to color
\* exactly the cells with x in [p.X, p.X + w) and y in [p.Y, p.Y + h) that lie
\* inside the canvas and leaves every other cell unchanged.
C4_FilledRectangleCells ==
    Made("DrawFilledRectangle") /\ input.call.width > 0 /\ input.call.height > 0
        => \A y \in 0..(img.height - 1) : \A x \in 0..(img.width - 1) :
              img.data[y][x] =
                  IF /\ x >= input.call.p1.X /\ x < input.call.p1.X + input.call.width
                     /\ y >= input.call.p1.Y /\ y < input.call.p1.Y + input.call.height
                  THEN Ink ELSE input.canvas.data[y][x]

\* what the call does: the cells with x in [p.X, p.X + w] and y in
\* [p.Y, p.Y + h], both ends included, are set
FilledRectangleClosedRanges ==
    Made("DrawFilledRectangle") /\ input.call.width > 0 /\ input.call.height > 0
        => \A y \in 0..(img.height - 1) : \A x \in 0..(img.width - 1) :
              img.data[y][x] =
                  IF /\ x >= input.call.p1.X /\ x <= input.call.p1.X + input.call.width
                     /\ y >= input.call.p1.Y /\ y <= input.call.p1.Y + input.call.height
                  THEN Ink ELSE input.canvas.data[y][x]

---------------------------------------------------------------------------
(* Conversions: ToPBM of a grayscale image, ToPGM and ToPBM of a color     *)
(* image.  Each returns a new image and leaves the receiver alone.         *)

\* a ToPBM whose threshold comparison includes the threshold itself
PGMToPBMInclusive(pgm) ==
    [kind |-> "PBM",
     data |-> [y \in 0..(pgm.height - 1) |-> [x \in 0..(pgm.width - 1) |->
                  pgm.data[y][x] <= pgm.max \div 2]],
     width |-> pgm.width, height |-> pgm.height, magicNumber |-> "P1"]

\* PGM.ToPBM: data[y][x] < uint8(pgm.max/2)
PGMToPBM(pgm) ==
    [kind |-> "PBM",
     data |-> [y \in 0..(pgm.height - 1) |-> [x \in 0..(pgm.width - 1) |->
                  pgm.data[y][x] < pgm.max \div 2]],
     width |-> pgm.width, height |-> pgm.height, magicNumber |-> "P1"]

\* PPM.ToPGM: the integer mean of the three channels
PPMToPGM(ppm) ==
    [kind |-> "PGM",
     data |-> [y \in 0..(ppm.height - 1) |-> [x \in 0..(ppm.width - 1) |->
                  Uint8((ppm.data[y][x].R + ppm.data[y][x].G + ppm.data[y][x].B) \div 3)]],
     width |-> ppm.width, height |-> ppm.height, magicNumber |-> "P2", max |-> ppm.max]

\* PPM.ToPBM: the mean in uint16 against threshold := uint8(ppm.max / 2)
PPMToPBM(ppm) ==
    LET threshold == ppm.max \div 2
    IN  [kind |-> "PBM",
         data |-> [y \in 0..(ppm.height - 1) |-> [x \in 0..(ppm.width - 1) |->
                      LET average == ((ppm.data[y][x].R + ppm.data[y][x].G
                                       + ppm.data[y][x].B) % 65536) \div 3
                      IN  average < threshold]],
         width |-> ppm.width, height |-> ppm.height, magicNumber |-> "P1"]

ToPBM(image) ==
    CASE image.kind = "PGM" -> PGMToPBM(image)
      [] image.kind = "PPM" -> PPMToPBM(image)

\* a sample next to the threshold max / 2: one below, equal, one above,
\* kept within 0..max
NearHalf(max, k) == Min(max, Max(0, (max \div 2) - 1 + (k % 3)))

\* images whose samples lie around the threshold
NearHalfImages ==
    UNION {{[PGMImage(w, h, "P2", max, s) EXCEPT
                !.data = [y \in 0..(h - 1) |-> [x \in 0..(w - 1) |->
                             NearHalf(max, y * w + x + s)]]]
            : w \in 1..MaxDim, h \in 1..MaxDim, s \in 0..MaxSeed} : max \in MaxVals}
    \cup
    UNION {{[PPMImage(w, h, "P3", max, s) EXCEPT
                !.data = [y \in 0..(h - 1) |-> [x \in 0..(w - 1) |->
                             [R |-> NearHalf(max, y * w + x + s),
                              G |-> NearHalf(max, y * w + x + s + 1),
                              B |-> NearHalf(max, y * w + x + 2 * s)]]]]
            : w \in 1..MaxDim, h \in 1..MaxDim, s \in 0..MaxSeed} : max \in MaxVals}

\* pure white: every sample equals max
WhiteImages ==
    UNION {{[PGMImage(w, h, "P5", max, 0) EXCEPT
                !.data = [y \in 0..(h - 1) |-> [x \in 0..(w - 1) |-> max]]]
            : w \in 1..MaxDim, h \in 1..MaxDim} : max \in MaxVals}
    \cup
    UNION {{[PPMImage(w, h, "P6", max, 0) EXCEPT
                !.data = [y \in 0..(h - 1) |-> [x \in 0..(w - 1) |->
                             [R |-> max, G |-> max, B |-> max]]]]
            : w \in 1..MaxDim, h \in 1..MaxDim} : max \in MaxVals}

InitConvert ==
    /\ img \in {i \in Images : i.kind \in {"PGM", "PPM"}} \cup NearHalfImages
               \cup WhiteImages
    /\ input = img
    /\ file = <<>>
    /\ res = NoResult
    /\ hist = <<>>

\* the caller keeps the image and receives the converted one
Converted(op, image) ==
    /\ res' = [NoResult EXCEPT !.op = op, !.img = image]
    /\ hist' = Append(hist, op)
    /\ UNCHANGED <<img, input, file>>

DoToPBM ==
    /\ res.op = "none"
    /\ Converted("ToPBM", ToPBM(img))

DoToPGM ==
    /\ res.op = "none"
    /\ img.kind = "PPM"
    /\ Converted("ToPGM", PPMToPGM(img))

NextConvert == DoToPBM \/ DoToPGM

SpecConvert == InitConvert /\ [][NextConvert]_vars

\* the gray level the half-threshold rule looks at in cell (x, y)
GrayLevel(image, y, x) ==
    IF image.kind = "PGM" THEN image.data[y][x]
    ELSE (image.data[y][x].R + image.data[y][x].G + image.data[y][x].B) \div 3

\* every sample of the image equals its max
PureWhite(image) ==
    \A y \in 0..(image.height - 1) : \A x \in 0..(image.width - 1) :
        \A c \in Channels(image, y, x) : c = image.max

\* C11: ToPBM of a grayscale image marks a cell true iff its sample is below
\* floor(max / 2), ToPBM of a color image iff floor((R + G + B) / 3) is below
\* floor(max / 2); the result is a new bitmap of the same width and height,
\* the source keeps its value, and a pure white image gives an all-false
\* bitmap.
C11_HalfThreshold ==
    res.op = "ToPBM"
        => /\ res.img.kind = "PBM"
           /\ res.img.width = input.width /\ res.img.height = input.height
           /\ DOMAIN res.img.data = 0..(input.height - 1)
           /\ \A y \in 0..(input.height - 1) :
                 /\ DOMAIN res.img.data[y] = 0..(input.width - 1)
                 /\ \A x \in 0..(input.width - 1) :
                       res.img.data[y][x]
                           <=> GrayLevel(input, y, x) < input.max \div 2
           /\ img = input
           /\ PureWhite(input)
                 => \A y \in 0..(input.height - 1) : \A x \in 0..(input.width - 1) :
                       ~res.img.data[y][x]

\* a 3 x 2 grayscale image with max 255 holding samples below, at and above
\* 127 has been converted
C11_Witness ==
    /\ res.op = "ToPBM"
    /\ input.kind = "PGM" /\ input.max = 255
    /\ input.width = 3 /\ input.height = 2
    /\ \E y \in 0..1 : \E x \in 0..2 : input.data[y][x] = 127 /\ ~res.img.data[y][x]
    /\ \E y \in 0..1 : \E x \in 0..2 : input.data[y][x] = 126 /\ res.img.data[y][x]

---------------------------------------------------------------------------
(* SetMaxValue as a rescale, over the calls of SpecTonal.                  *)

\* the image with every channel c replaced by floor(c * newMax / max) and
\* max replaced by newMax
Scaled(image, newMax) ==
    [image EXCEPT
        !.data = [y \in 0..(image.height - 1) |-> [x \in 0..(image.width - 1) |->
                     IF image.kind = "PPM"
                     THEN [R |-> (image.data[y][x].R * newMax) \div image.max,
                           G |-> (image.data[y][x].G * newMax) \div image.max,
                           B |-> (image.data[y][x].B * newMax) \div image.max]
                     ELSE (image.data[y][x] * newMax) \div image.max]],
        !.max = newMax]

\* C12: SetMaxValue(newMax) on a grayscale or color image with max >= 1 and
\* every channel at most max replaces each channel c by c * newMax / max
\* truncated toward zero, without 8-bit wrap-around, then sets max to newMax,
\* and leaves width, height and magic number unchanged.
C12_SetMaxValueRescales ==
    [][(res'.op = "SetMaxValue" /\ img.max >= 1 /\ SampleBound(img))
          => img' = Scaled(img, img'.max)]_vars

\* a color image with max 255 has been rescaled to max 100, and a channel
\* whose quotient is not exact was truncated
C12_Witness ==
    /\ hist = <<"SetMaxValue">>
    /\ input.kind = "PPM" /\ input.max = 255 /\ img.max = 100
    /\ SampleBound(input)
    /\ \E y \in 0..(input.height - 1) : \E x \in 0..(input.width - 1) :
          /\ (input.data[y][x].R * 100) % 255 # 0
          /\ input.data[y][x].R * 100 >= 256
          /\ img.data[y][x].R = (input.data[y][x].R * 100) \div 255

---------------------------------------------------------------------------
(* Filled polygons and triangles, over the calls of SpecDraw.              *)

\* x lies on the span between a disjoint consecutive pair (entries 0-1,
\* 2-3, ...) of the entries of scanline y
OnPairedSpan(points, x, y) ==
    /\ PolygonMinY(points) <= y /\ y <= PolygonMaxY(points)
    /\ LET xs == ScanlineEntries(points, y, 1)
       IN  \E k \in 1..(Len(xs) \div 2) :
               /\ Min(xs[2 * k - 1], xs[2 * k]) <= x
               /\ x <= Max(xs[2 * k - 1], xs[2 * k])

\* x lies on the span between some two neighbouring entries of scanline y
OnNeighbourSpan(points, x, y) ==
    /\ PolygonMinY(points) <= y /\ y <= PolygonMaxY(points)
    /\ LET xs == ScanlineEntries(points, y, 1)
       IN  \E j \in 1..(Len(xs) - 1) :
               /\ Min(xs[j], xs[j + 1]) <= x
               /\ x <= Max(xs[j], xs[j + 1])

\* C13: DrawFilledPolygon groups the x-intersections of every scanline from
\* minY to maxY, whatever its parity, into disjoint consecutive pairs (entries
\* 0-1, 2-3, ...), draws a span between the two entries of each pair and
\* between no other entries: the cells set are those on the paired spans.
C13_SpansPairUp ==
    Made("DrawFilledPolygon") /\ ~res.panic
        => \A y \in 0..(img.height - 1) : \A x \in 0..(img.width - 1) :
              img.data[y][x] =
                  IF OnPairedSpan(input.call.points, x, y) THEN Ink
                  ELSE input.canvas.data[y][x]

\* what the call does: scanlines of even index (from minY) are paired,
\* scanlines of odd index get a span between every two neighbouring entries
FilledPolygonByParity ==
    Made("DrawFilledPolygon") /\ ~res.panic
        => \A y \in 0..(img.height - 1) : \A x \in 0..(img.width - 1) :
              img.data[y][x] =
                  IF \/ /\ (y - PolygonMinY(input.call.points)) % 2 = 0
                        /\ OnPairedSpan(input.call.points, x, y)
                     \/ /\ (y - PolygonMinY(input.call.points)) % 2 = 1
                        /\ OnNeighbourSpan(input.call.points, x, y)
                  THEN Ink
                  ELSE input.canvas.data[y][x]

\* the rows DrawFilledTriangle draws a span on
FilledTriangleRows(p1, p2, p3) ==
    {FilledTriangleSpans(p1, p2, p3)[i].p1.Y
        : i \in 1..Len(FilledTriangleSpans(p1, p2, p3))}

\* C15: DrawFilledTriangle works with its vertices in ascending y, whatever
\* the order of the arguments: Corners[0].Y <= Corners[1].Y <= Corners[2].Y,
\* so that its loops cover exactly the rows from the topmost to the
\* bottommost vertex.
C15_CornersAscending ==
    Made("DrawFilledTriangle")
        => LET c == FilledTriangleCorners(input.call.p1, input.call.p2, input.call.p3)
               ys == {input.call.p1.Y, input.call.p2.Y, input.call.p3.Y}
           IN  /\ c[1].Y <= c[2].Y /\ c[2].Y <= c[3].Y
               /\ FilledTriangleRows(input.call.p1, input.call.p2, input.call.p3)
                     = {y \in Coords : \E a \in ys, b \in ys : a <= y /\ y <= b}

\* what the call does: only the first of the working vertices is ordered
FilledTriangleTopFirst ==
    Made("DrawFilledTriangle")
        => LET c == FilledTriangleCorners(input.call.p1, input.call.p2, input.call.p3)
           IN  c[1].Y <= c[2].Y /\ c[1].Y <= c[3].Y

---------------------------------------------------------------------------
(* DrawLine as a chain of lattice points, over the calls of SpecDraw.      *)

\* C14: DrawLine terminates for every pair of end points p1, p2 and plots a
\* chain of exactly max(|x2 - x1|, |y2 - y1|) + 1 lattice points that starts
\* at p1 and ends at p2; each point differs from the one before by at most 1
\* in x and at most 1 in y and lies in the bounding box of the end points, so
\* a line with |dx| = |dy| plots the diagonal; the cells set are the points of
\* the chain inside the canvas, and no other cell changes.
C14_LineIsChain ==
    Made("DrawLine")
        => LET p1 == input.call.p1
               p2 == input.call.p2
               ps == DrawLinePoints(p1, p2)
               n == Max(abs(p2.X - p1.X), abs(p2.Y - p1.Y)) + 1
           IN  /\ Len(ps) = n
               /\ ps[1] = p1 /\ ps[n] = p2
               /\ \A i \in 1..(n - 1) :
                     /\ abs(ps[i + 1].X - ps[i].X) <= 1
                     /\ abs(ps[i + 1].Y - ps[i].Y) <= 1
                     /\ ps[i + 1] # ps[i]
               /\ \A i \in 1..n :
                     /\ Min(p1.X, p2.X) <= ps[i].X /\ ps[i].X <= Max(p1.X, p2.X)
                     /\ Min(p1.Y, p2.Y) <= ps[i].Y /\ ps[i].Y <= Max(p1.Y, p2.Y)
               /\ abs(p2.X - p1.X) = abs(p2.Y - p1.Y)
                     => \A i \in 1..n : abs(ps[i].X - p1.X) = i - 1
                                        /\ abs(ps[i].Y - p1.Y) = i - 1
               /\ \A y \in 0..(img.height - 1) : \A x \in 0..(img.width - 1) :
                     img.data[y][x] =
                         IF \E i \in 1..n : ps[i] = [X |-> x, Y |-> y] THEN Ink
                         ELSE input.canvas.data[y][x]

\* the line from (0, 0) to (2, 2) has been drawn on a 3 x 3 canvas: the
\* diagonal is set, the cell next to it is not
C14_Witness ==
    /\ Made("DrawLine")
    /\ input.canvas.width = 3 /\ input.canvas.height = 3
    /\ input.call.p1 = [X |-> 0, Y |-> 0] /\ input.call.p2 = [X |-> 2, Y |-> 2]
    /\ img.data[0][0] = Ink /\ img.data[1][1] = Ink /\ img.data[2][2] = Ink
    /\ img.data[0][1] = input.canvas.data[0][1]
    /\ img.data[1][0] # Ink

---------------------------------------------------------------------------
(* Save of an image whose magic number its struct cannot encode, over the  *)
(* calls of SpecCodec.                                                     *)

\* C16: after SetMagicNumber has stored a token that is not one of the two
\* the image's struct accepts (P1/P4 for PBM, P2/P5 for PGM, P3/P6 for PPM),
\* Save returns a non-nil error, for all three structs.
C16_SaveRejectsForeignToken ==
    [][(res'.op = "Save" /\ img' = img /\ img.magicNumber \notin Tokens(img.kind))
          => res'.err # "nil"]_vars

\* what the calls do: PBM.Save and PPM.Save return an error, PGM.Save
\* writes the header alone and returns nil
SaveOfForeignToken ==
    [][(res'.op = "Save" /\ img' = img /\ img.magicNumber \notin Tokens(img.kind))
          => (res'.err = "nil" <=> img.kind = "PGM")]_vars

====
